---- MODULE Spec2Model ----
(***************************************************************************)
(* Model of the JobTracker component of src/src/App.jsx: the in-memory     *)
(* job and attachment collections, the three localStorage slots, the job   *)
(* form, and the asynchronous handlers that talk to the remote table store *)
(* and the remote blob store.  Every await of a remote call is split into  *)
(* three steps: the client sends the request, the remote store serves it,  *)
(* and the client receives the response and runs the rest of the handler   *)
(* up to its next await.                                                   *)
(***************************************************************************)
EXTENDS Integers, Sequences, FiniteSets, TLC

(* ---------------------------- bounds ----------------------------------- *)

\* number of asynchronous handler invocations in one session
MaxTasks == 2
\* number of clock advances in one session
MaxTick == 1

(* ------------------------ program constants ---------------------------- *)

CACHE_TTL_MS == 5 * 60 * 1000

\* one clock advance: half the time-to-live
TickMs == CACHE_TTL_MS \div 2

\* the instant at which the page is opened
StartMs == 2 * CACHE_TTL_MS

\* JavaScript null, for applied_date and editingId
null == "null"
NoId == 0

User == "u1"
\* a second account, and the session of the App root while nobody is signed in
Other == "u2"
NoUser == "none"
Today == "2024-01-02"
FileName == "cv.pdf"

(* ------------------------------ records -------------------------------- *)

\* initial form contents: useState(...) and resetForm
EmptyForm ==
  [company |-> "", position |-> "", source_url |-> "", date_found |-> Today,
   description |-> "", applied |-> FALSE, applied_date |-> "",
   status |-> "not_applied"]

\* a row of the remote jobs table: the written payload plus the
\* server-assigned id and creation timestamp
JobRow(id, payload) ==
  [id |-> id, created_at |-> id, user_id |-> User,
   company |-> payload.company, position |-> payload.position,
   source_url |-> payload.source_url, date_found |-> payload.date_found,
   description |-> payload.description, applied |-> payload.applied,
   applied_date |-> payload.applied_date, status |-> payload.status]

\* the storage path built by uploadJobAttachment
BlobPath(jobId, ts) == [user |-> User, job |-> jobId, ts |-> ts, name |-> FileName]

\* a row of the remote job_attachments table
AttRow(id, jobId, path) ==
  [id |-> id, created_at |-> id, job_id |-> jobId, user_id |-> User,
   file_path |-> path, file_name |-> FileName]

\* the rows of a longer jobs table; the unapplied ones with an even id have
\* no status
SampleJob(i) ==
  LET isApplied == i % 3 # 0
  IN JobRow(i, [company |-> IF i % 3 = 0 THEN "Bolt"
                            ELSE IF i % 3 = 1 THEN "Acme" ELSE "acme",
                position |-> IF i % 2 = 0 THEN "Dev" ELSE "QA",
                source_url |-> IF i % 5 = 0 THEN "x.io"
                               ELSE IF i % 5 = 1 THEN null ELSE "",
                date_found |-> IF i % 2 = 0 THEN "2024-01-01" ELSE "2024-01-02",
                description |-> IF i % 4 = 1 THEN "me too"
                                ELSE IF i % 4 = 2 THEN null ELSE "",
                applied |-> isApplied,
                applied_date |-> IF isApplied THEN "2024-01-02" ELSE null,
                status |-> IF ~isApplied
                           THEN (IF i % 2 = 0 THEN null ELSE "not_applied")
                           ELSE IF i % 4 = 0 THEN "pending"
                           ELSE IF i % 4 = 1 THEN "interview"
                           ELSE IF i % 4 = 2 THEN "offer" ELSE "rejected"])

\* a jobs table of n rows, newest first
JobList(n) == [k \in 1..n |-> SampleJob(n + 1 - k)]

\* an attachments table, newest first: two files of job n and, between
\* them, one of job n - 1
AttList(n) ==
  <<AttRow(3, n, BlobPath(n, 3)), AttRow(2, n - 1, BlobPath(n - 1, 2)),
    AttRow(1, n, BlobPath(n, 1))>>

Job1 ==
  JobRow(1, [EmptyForm EXCEPT !.company = "Acme", !.position = "Dev",
                               !.applied = TRUE, !.applied_date = "2024-01-01",
                               !.status = "pending"])
Path1 == BlobPath(1, 0)
Att1 == AttRow(1, 1, Path1)

(* --------------------------- localStorage ------------------------------ *)

Absent == [k |-> "absent", v |-> <<>>]
Corrupt == [k |-> "corrupt", v |-> <<>>]
\* JSON.stringify(list)
Stringify(list) == [k |-> "json", v |-> list]
\* a slot read with getItem is truthy when it holds a non-empty string
Truthy(slot) == slot.k # "absent"
\* JSON.parse succeeds
Parses(slot) == slot.k = "json"
\* JSON.parse(slot), [] kept when the slot is missing or the parse throws
ParseOr(slot, prev) == IF Parses(slot) THEN slot.v ELSE prev

NoStamp == [k |-> "absent", v |-> 0]
\* String(Date.now())
Stamp(t) == [k |-> "num", v |-> t]
\* Number(localStorage.getItem(CACHE_LAST_FETCH_KEY) || 0)
LastFetch(slot) == IF slot.k = "absent" THEN 0 ELSE slot.v

\* a jobs collection that is not written to its slot
SaveJobsSkipped(store, list) == store

\* localStorage.setItem(CACHE_JOBS_KEY, JSON.stringify(list))
SaveJobs(store, list) == [store EXCEPT !.jobs = Stringify(list)]
\* an attachments cache kept under the key of the jobs cache
SaveAttsSameKey(store, list) == [store EXCEPT !.jobs = Stringify(list)]

\* localStorage.setItem(CACHE_ATTACH_KEY, JSON.stringify(list))
SaveAtts(store, list) == [store EXCEPT !.atts = Stringify(list)]

\* a fetch that forgets the refresh instant
StampForgotten(store, t) == store

\* localStorage.setItem(CACHE_LAST_FETCH_KEY, String(Date.now()))
StampRefresh(store, t) == [store EXCEPT !.last = Stamp(t)]

(* ------------------------------- tasks --------------------------------- *)

TaskIds == 1..MaxTasks

\* a response: { data, error }
Error == [ok |-> FALSE, jobs |-> <<>>, atts |-> <<>>]
NoResp == Error
Data(js, as) == [ok |-> TRUE, jobs |-> js, atts |-> as]

\* a handler invocation: its kind, the await it is suspended at, the values
\* its closure holds (id, path), the payload of its write request until the
\* request is served, the response on its way back, and the id of the row
\* its write touched
IdleTask ==
  [kind |-> "idle", pc |-> "idle", id |-> NoId, payload |-> EmptyForm,
   path |-> Path1, resp |-> NoResp, wrote |-> NoId]
DoneTask == [IdleTask EXCEPT !.kind = "done", !.pc = "done"]

VARIABLES
  remoteJobs,   \* remote jobs table, newest first
  remoteAtts,   \* remote job_attachments table, newest first
  blobs,        \* paths stored in the job-attachments bucket
  srvSeq,       \* next server-assigned id / creation timestamp
  jobs,         \* useState jobs
  attachments,  \* useState attachments
  loading,      \* useState loading
  form,         \* useState form
  editingId,    \* useState editingId
  isFormOpen,   \* useState isFormOpen
  alertMsg,     \* last message shown with alert()
  ls,           \* localStorage: jobsCache, attachmentsCache, last fetch
  branch,       \* branch taken by the startup effect
  now,          \* Date.now()
  ticks,        \* clock advances so far
  tasks,        \* asynchronous handler invocations
  user,         \* session.user.id of the App root, NoUser while signed out
  searchTerm,   \* useState searchTerm
  statusFilter, \* useState statusFilter
  appliedFilter,\* useState appliedFilter
  sortKey,      \* useState sortKey
  sortDirection,\* useState sortDirection
  currentPage,  \* useState currentPage
  pageSize      \* useState pageSize

vars ==
  <<remoteJobs, remoteAtts, blobs, srvSeq, jobs, attachments, loading, form,
    editingId, isFormOpen, alertMsg, ls, branch, now, ticks, tasks, user,
    searchTerm, statusFilter, appliedFilter, sortKey, sortDirection,
    currentPage, pageSize>>

\* the state of the filter, sort and pagination controls
viewVars ==
  <<searchTerm, statusFilter, appliedFilter, sortKey, sortDirection,
    currentPage, pageSize>>

remoteVars == <<remoteJobs, remoteAtts, blobs, srvSeq>>
formVars == <<form, editingId, isFormOpen>>
cacheVars == <<jobs, attachments, ls>>

(* ------------------------------- Init ---------------------------------- *)

\* what a slot may hold when the page is opened
InitJobSlots == {Absent, Corrupt, Stringify(<<>>), Stringify(<<Job1>>)}
InitAttSlots == {Absent, Corrupt, Stringify(<<>>), Stringify(<<Att1>>)}
InitStamps ==
  {NoStamp, Stamp(StartMs), Stamp(StartMs - CACHE_TTL_MS),
   Stamp(StartMs - CACHE_TTL_MS - 1)}
AllStores ==
  {[jobs |-> j, atts |-> a, last |-> s] :
     j \in InitJobSlots, a \in InitAttSlots, s \in InitStamps}

\* nothing cached; a cache exactly as old as the time-to-live; an older one
EmptyStore == [jobs |-> Absent, atts |-> Absent, last |-> NoStamp]
FreshStore ==
  [jobs |-> Stringify(<<Job1>>), atts |-> Stringify(<<Att1>>),
   last |-> Stamp(StartMs - CACHE_TTL_MS)]
StaleStore == [FreshStore EXCEPT !.last = Stamp(StartMs - CACHE_TTL_MS - 1)]
FewStores == {EmptyStore, FreshStore, StaleStore}

\* the component as constructed, over the given remote tables and with
\* localStorage left by earlier sessions
InitOn(rjobs, ratts, stores) ==
  /\ remoteJobs = rjobs
  /\ remoteAtts = ratts
  /\ blobs = {ratts[i].file_path : i \in 1..Len(ratts)}
  /\ srvSeq = (IF Len(rjobs) >= Len(ratts) THEN Len(rjobs) ELSE Len(ratts)) + 1
  /\ jobs = <<>>
  /\ attachments = <<>>
  /\ loading = TRUE
  /\ form = EmptyForm
  /\ editingId = NoId
  /\ isFormOpen = FALSE
  /\ alertMsg = ""
  /\ ls \in stores
  /\ branch = "unstarted"
  /\ now = StartMs
  /\ ticks = 0
  /\ tasks = [t \in TaskIds |-> IdleTask]
  /\ user = User
  /\ searchTerm = ""
  /\ statusFilter = "all"
  /\ appliedFilter = "all"
  /\ sortKey = "applied"
  /\ sortDirection = "desc"
  /\ currentPage = 1
  /\ pageSize = 10

InitWith(stores) == InitOn(<<Job1>>, <<Att1>>, stores)

Init == InitWith(FewStores)
InitStart == InitWith(AllStores)
InitForm == InitWith({FreshStore})

(* ------------------------------ helpers -------------------------------- *)

Min(S) == CHOOSE x \in S : \A y \in S : x <= y
FreeIds == {t \in TaskIds : tasks[t].kind = "idle"}
\* start a handler invocation
Spawn(rec) == /\ FreeIds # {}
              /\ tasks' = [tasks EXCEPT ![Min(FreeIds)] = rec]

\* prev.filter((j) => j.id !== id)
WithoutId(s, id) == SelectSeq(s, LAMBDA x : x.id # id)
\* prev.filter((att) => att.job_id !== id)
WithoutJob(s, id) == SelectSeq(s, LAMBDA x : x.job_id # id)

Elems(s) == {s[i] : i \in 1..Len(s)}
Ids(s) == {s[i].id : i \in 1..Len(s)}

(* ------------------------------- text --------------------------------- *)

\* the characters of the strings that the component looks into
Chars(s) ==
  CASE s = "" -> <<>>
    [] s = " " -> <<" ">>
    [] s = "me" -> <<"m", "e">>
    [] s = "ME " -> <<"M", "E", " ">>
    [] s = "zz" -> <<"z", "z">>
    [] s = "Acme" -> <<"A", "c", "m", "e">>
    [] s = "acme" -> <<"a", "c", "m", "e">>
    [] s = "Bolt" -> <<"B", "o", "l", "t">>
    [] s = "Dev" -> <<"D", "e", "v">>
    [] s = "QA" -> <<"Q", "A">>
    [] s = "me too" -> <<"m", "e", " ", "t", "o", "o">>
    [] s = "x.io" -> <<"x", ".", "i", "o">>
    [] s = "2024-01-01" -> <<"2", "0", "2", "4", "-", "0", "1", "-", "0", "1">>
    [] s = "2024-01-02" -> <<"2", "0", "2", "4", "-", "0", "1", "-", "0", "2">>
    [] s = "not_applied" -> <<"n", "o", "t", "_", "a", "p", "p", "l", "i", "e", "d">>
    [] s = "pending" -> <<"p", "e", "n", "d", "i", "n", "g">>
    [] s = "interview" -> <<"i", "n", "t", "e", "r", "v", "i", "e", "w">>
    [] s = "offer" -> <<"o", "f", "f", "e", "r">>
    [] s = "rejected" -> <<"r", "e", "j", "e", "c", "t", "e", "d">>

\* String.prototype.toLowerCase, one character
Lower(c) ==
  CASE c = "A" -> "a"
    [] c = "B" -> "b"
    [] c = "D" -> "d"
    [] c = "E" -> "e"
    [] c = "M" -> "m"
    [] c = "Q" -> "q"
    [] OTHER -> c

\* String.prototype.toLowerCase
ToLowerCase(cs) == [i \in 1..Len(cs) |-> Lower(cs[i])]

\* String.prototype.trim
Trim(cs) ==
  LET inked == {i \in 1..Len(cs) : cs[i] # " "}
  IN IF inked = {} THEN <<>>
     ELSE SubSeq(cs, CHOOSE i \in inked : \A j \in inked : i <= j,
                     CHOOSE i \in inked : \A j \in inked : i >= j)

\* String.prototype.includes
Includes(hay, needle) ==
  \E i \in 0..(Len(hay) - Len(needle)) : SubSeq(hay, i + 1, i + Len(needle)) = needle

\* the collation order of the characters that reach localeCompare: white
\* space, punctuation, digits, letters
Collation ==
  <<" ", "_", "-", ".", "0", "1", "2", "4", "a", "b", "c", "d", "e", "f", "g",
    "i", "j", "l", "m", "n", "o", "p", "q", "r", "t", "v", "w", "x", "z">>
Rank(c) == CHOOSE i \in 1..Len(Collation) : Collation[i] = c

\* String.prototype.localeCompare: negative, zero or positive
LocaleCompare(a, b) ==
  LET differ == {i \in 1..Len(a) : i <= Len(b) /\ a[i] # b[i]}
  IN IF differ = {}
     THEN (IF Len(a) < Len(b) THEN -1 ELSE IF Len(a) > Len(b) THEN 1 ELSE 0)
     ELSE LET i == CHOOSE k \in differ : \A j \in differ : k <= j
          IN IF Rank(a[i]) < Rank(b[i]) THEN -1 ELSE 1

(* ------------------- filtering, sorting, pagination -------------------- *)

Max2(a, b) == IF a >= b THEN a ELSE b
Min2(a, b) == IF a <= b THEN a ELSE b

\* searchTerm.trim().toLowerCase()
normalizedSearch == ToLowerCase(Trim(Chars(searchTerm)))

\* (v ?? "").toLowerCase()
LowerText(v) == ToLowerCase(Chars(IF v = null THEN "" ELSE v))

matchesSearch(job) ==
  \/ normalizedSearch = <<>>
  \/ Includes(LowerText(job.company), normalizedSearch)
  \/ Includes(LowerText(job.position), normalizedSearch)
  \/ Includes(LowerText(job.description), normalizedSearch)
  \/ Includes(LowerText(job.source_url), normalizedSearch)

matchesStatus(job) ==
  LET jobStatus == IF job.status = null THEN "not_applied" ELSE job.status
  IN statusFilter = "all" \/ jobStatus = statusFilter

matchesApplied(job) ==
  IF appliedFilter = "applied" THEN job.applied
  ELSE IF appliedFilter = "not_applied_only" THEN ~job.applied
  ELSE TRUE

\* a filter that lets a job through on any one of the three tests
PassesAny(job) == matchesSearch(job) \/ matchesStatus(job) \/ matchesApplied(job)

\* the test of jobs.filter(...)
Passes(job) == matchesSearch(job) /\ matchesStatus(job) /\ matchesApplied(job)

filteredJobs == SelectSeq(jobs, Passes)

getSortValue(job) ==
  CASE sortKey = "company" -> LowerText(job.company)
    [] sortKey = "position" -> LowerText(job.position)
    [] sortKey = "status" ->
         LowerText(IF job.status = null THEN "not_applied" ELSE job.status)
    [] sortKey = "applied" -> IF job.applied THEN 1 ELSE 0
    [] OTHER -> Chars(IF job.date_found = null THEN "" ELSE job.date_found)

\* the comparator handed to sort
Comparator(a, b) ==
  LET v1 == getSortValue(a)
      v2 == getSortValue(b)
      result == IF sortKey = "applied" THEN v1 - v2 ELSE LocaleCompare(v1, v2)
  IN IF v1 = v2 THEN 0
     ELSE IF sortDirection = "asc" THEN result ELSE 0 - result

\* a sort that orders by the comparator and turns equal elements around
SortUnstable(s) ==
  LET ahead == [i \in 1..Len(s) |->
                  Cardinality({j \in 1..Len(s) :
                                 \/ Comparator(s[j], s[i]) < 0
                                 \/ Comparator(s[j], s[i]) = 0 /\ j > i})]
  IN [k \in 1..Len(s) |-> s[CHOOSE i \in 1..Len(s) : ahead[i] = k - 1]]

\* [...list].sort(comparator).  Array.prototype.sort is stable: an element
\* comes after those that compare lower and after those that compare equal
\* and stand before it in the list
Sort(s) ==
  LET ahead == [i \in 1..Len(s) |->
                  Cardinality({j \in 1..Len(s) :
                                 \/ Comparator(s[j], s[i]) < 0
                                 \/ Comparator(s[j], s[i]) = 0 /\ j < i})]
  IN [k \in 1..Len(s) |-> s[CHOOSE i \in 1..Len(s) : ahead[i] = k - 1]]

sortedJobs == Sort(filteredJobs)

totalItems == Len(sortedJobs)

\* Math.ceil(a / b) for a >= 0, b > 0
Ceil(a, b) == (a + b - 1) \div b

\* a page count that rounds down
PagesFloor(n, size) == Max2(1, n \div size)

\* Math.max(1, Math.ceil(totalItems / pageSize))
Pages(n, size) == Max2(1, Ceil(n, size))

totalPages == Pages(totalItems, pageSize)

\* a page number taken as it stands
Unclamped(page, pages) == page

\* Math.min(currentPage, totalPages)
Clamp(page, pages) == Min2(page, pages)

safePage == Clamp(currentPage, totalPages)

\* Array.prototype.slice(from, to) for 0 <= from <= to
Slice(s, from, to) == SubSeq(s, from + 1, Min2(to, Len(s)))

\* sortedJobs.slice(startIndex, startIndex + pageSize) for a page
PageOf(s, page, size) == Slice(s, (page - 1) * size, (page - 1) * size + size)

visibleJobs == PageOf(sortedJobs, safePage, pageSize)

\* the page size select offers these
PageSizes == {10, 20, 50}

(* ------------------ the filter, sort and page controls ----------------- *)

dataVars ==
  <<remoteVars, cacheVars, loading, formVars, alertMsg, branch, now, ticks,
    tasks, user>>

\* an effect that leaves the page where it is
KeepPage(page) == page

\* the effect on [searchTerm, statusFilter, appliedFilter, pageSize]:
\* setCurrentPage(1)
ResetPage(page) == 1

\* the search input
SetSearchTerm(terms) ==
  /\ branch # "unstarted"
  /\ \E v \in terms : v # searchTerm /\ searchTerm' = v
  /\ currentPage' = ResetPage(currentPage)
  /\ UNCHANGED <<dataVars, statusFilter, appliedFilter, sortKey, sortDirection,
                 pageSize>>

\* the status filter select
SetStatusFilter(options) ==
  /\ branch # "unstarted"
  /\ \E v \in options : v # statusFilter /\ statusFilter' = v
  /\ currentPage' = ResetPage(currentPage)
  /\ UNCHANGED <<dataVars, searchTerm, appliedFilter, sortKey, sortDirection,
                 pageSize>>

\* the applied filter select
SetAppliedFilter ==
  /\ branch # "unstarted"
  /\ \E v \in {"all", "applied", "not_applied_only"} :
       v # appliedFilter /\ appliedFilter' = v
  /\ currentPage' = ResetPage(currentPage)
  /\ UNCHANGED <<dataVars, searchTerm, statusFilter, sortKey, sortDirection,
                 pageSize>>

\* the list, and with it the column headers and the pagination controls,
\* is rendered
ListShown == branch # "unstarted" /\ ~loading /\ jobs # <<>> /\ filteredJobs # <<>>

\* the rows-per-page select
SetPageSize ==
  /\ ListShown
  /\ \E v \in PageSizes : v # pageSize /\ pageSize' = v
  /\ currentPage' = ResetPage(currentPage)
  /\ UNCHANGED <<dataVars, searchTerm, statusFilter, appliedFilter, sortKey,
                 sortDirection>>

\* the sort key select
SetSortKey(keys) ==
  /\ branch # "unstarted"
  /\ \E v \in keys : v # sortKey /\ sortKey' = v
  /\ UNCHANGED <<dataVars, searchTerm, statusFilter, appliedFilter, sortDirection,
                 currentPage, pageSize>>

\* the sort direction button
ToggleSortDirection ==
  /\ branch # "unstarted"
  /\ sortDirection' = IF sortDirection = "asc" THEN "desc" ELSE "asc"
  /\ UNCHANGED <<dataVars, searchTerm, statusFilter, appliedFilter, sortKey,
                 currentPage, pageSize>>

\* handleSort(key), the click on a column header
HandleSort(keys) ==
  /\ ListShown
  /\ currentPage' = 1
  /\ \E key \in keys :
       IF sortKey = key
       THEN /\ sortDirection' = IF sortDirection = "asc" THEN "desc" ELSE "asc"
            /\ UNCHANGED sortKey
       ELSE /\ sortKey' = key
            /\ sortDirection' = "asc"
  /\ UNCHANGED <<dataVars, searchTerm, statusFilter, appliedFilter, pageSize>>

\* the First button
FirstPage ==
  /\ ListShown
  /\ safePage # 1
  /\ currentPage' = 1
  /\ UNCHANGED <<dataVars, searchTerm, statusFilter, appliedFilter, sortKey,
                 sortDirection, pageSize>>

\* the Previous button
PreviousPage ==
  /\ ListShown
  /\ safePage # 1
  /\ currentPage' = Max2(1, currentPage - 1)
  /\ UNCHANGED <<dataVars, searchTerm, statusFilter, appliedFilter, sortKey,
                 sortDirection, pageSize>>

\* the Next button
NextPage ==
  /\ ListShown
  /\ safePage # totalPages
  /\ currentPage' = Min2(totalPages, currentPage + 1)
  /\ UNCHANGED <<dataVars, searchTerm, statusFilter, appliedFilter, sortKey,
                 sortDirection, pageSize>>

\* the Last button
LastPage ==
  /\ ListShown
  /\ safePage # totalPages
  /\ currentPage' = totalPages
  /\ UNCHANGED <<dataVars, searchTerm, statusFilter, appliedFilter, sortKey,
                 sortDirection, pageSize>>

(* --------------------------- startup effect ---------------------------- *)

\* a policy that also refreshes a cache exactly as old as the time-to-live
StartupBranchAtTtl(cachedJobs, cachedAttachments, age) ==
  IF ~Truthy(cachedJobs) /\ ~Truthy(cachedAttachments) THEN "initial"
  ELSE IF age >= CACHE_TTL_MS THEN "stale"
  ELSE "fresh"

\* the branch of the staleness policy
StartupBranch(cachedJobs, cachedAttachments, age) ==
  IF ~Truthy(cachedJobs) /\ ~Truthy(cachedAttachments) THEN "initial"
  ELSE IF age > CACHE_TTL_MS THEN "stale"
  ELSE "fresh"

\* a policy that fetches only when nothing is cached
RefetchesWhenEmpty(b) == b = "initial"

\* the branches that call fetchJobs and then fetchAttachments
Refetches(b) == b \in {"initial", "stale"}

\* a policy that reports loaded in every branch
LoadedAtOnce(b) == FALSE

\* loading after the effect: only the stale and fresh branches end with
\* setLoading(false); in the stale branch it follows fetchJobs' setLoading(true)
StaysLoading(b) == b = "initial"

\* fetchJobs up to its await: setLoading(true) and the select request
StartupTask == [IdleTask EXCEPT !.kind = "startup", !.pc = "fj_sent"]

\* useEffect(..., []) of JobTracker
Startup ==
  /\ user # NoUser
  /\ branch = "unstarted"
  /\ LET cachedJobs == ls.jobs
         cachedAttachments == ls.atts
         lastFetch == LastFetch(ls.last)
         age == now - lastFetch
         b == StartupBranch(cachedJobs, cachedAttachments, age)
     IN /\ jobs' = ParseOr(cachedJobs, jobs)
        /\ attachments' = ParseOr(cachedAttachments, attachments)
        /\ branch' = b
        /\ loading' = StaysLoading(b)
        /\ IF Refetches(b) THEN Spawn(StartupTask) ELSE UNCHANGED tasks
  /\ UNCHANGED <<remoteVars, formVars, alertMsg, ls, now, ticks, user, viewVars>>

\* the clock advances
Tick ==
  /\ ticks < MaxTick
  /\ ticks' = ticks + 1
  /\ now' = now + TickMs
  /\ UNCHANGED <<remoteVars, cacheVars, loading, formVars, alertMsg, branch, tasks, user, viewVars>>

(* ------------------------------ the form ------------------------------- *)

\* resetForm
ResetForm == form' = EmptyForm /\ editingId' = NoId

\* openForNewJob
OpenForNewJob ==
  /\ branch # "unstarted"
  /\ ResetForm
  /\ isFormOpen' = TRUE
  /\ UNCHANGED <<remoteVars, cacheVars, loading, alertMsg, branch, now, ticks, tasks, user, viewVars>>

\* the Cancel and Close buttons of the modal
CloseForm ==
  /\ isFormOpen
  /\ ResetForm
  /\ isFormOpen' = FALSE
  /\ UNCHANGED <<remoteVars, cacheVars, loading, alertMsg, branch, now, ticks, tasks, user, viewVars>>

\* what the user can type into the inputs and pick in the select
FormInputs ==
  {<<"company", "Acme">>, <<"position", "Dev">>, <<"date_found", "">>,
   <<"status", "interview">>}
\* the inputs that fill in the required fields of an empty form
RequiredInputs == {<<"company", "Acme">>, <<"position", "Dev">>}

\* the form after handleChange on the "applied" checkbox
ChangeApplied(prev, checked) ==
  [prev EXCEPT !.applied = checked,
               !.applied_date = IF checked /\ prev.applied_date = "" THEN Today
                                ELSE prev.applied_date]

\* the form after handleChange on any other input
ChangeField(prev, name, value) == [prev EXCEPT ![name] = value]

\* the applied_date and status inputs are rendered only while form.applied
Rendered(name) == name \in {"applied_date", "status"} => form.applied

\* handleChange on a text, date or select input
HandleChange(inputs) ==
  /\ isFormOpen
  /\ \E in \in inputs :
       /\ Rendered(in[1])
       /\ form' = ChangeField(form, in[1], in[2])
  /\ form' # form
  /\ UNCHANGED <<remoteVars, cacheVars, loading, editingId, isFormOpen, alertMsg,
                 branch, now, ticks, tasks, user, viewVars>>

\* handleChange on the "applied" checkbox
HandleChangeApplied ==
  /\ isFormOpen
  /\ form' = ChangeApplied(form, ~form.applied)
  /\ UNCHANGED <<remoteVars, cacheVars, loading, editingId, isFormOpen, alertMsg,
                 branch, now, ticks, tasks, user, viewVars>>

\* v ?? d
OrElse(v, d) == IF v = null THEN d ELSE v

\* handleEdit(job); the Edit button is rendered for listed jobs once loaded
HandleEdit ==
  /\ branch # "unstarted"
  /\ ~loading
  /\ \E i \in 1..Len(visibleJobs) :
       LET job == visibleJobs[i] IN
       /\ editingId' = job.id
       /\ form' = [company |-> OrElse(job.company, ""),
                   position |-> OrElse(job.position, ""),
                   source_url |-> OrElse(job.source_url, ""),
                   date_found |-> OrElse(job.date_found, ""),
                   description |-> OrElse(job.description, ""),
                   applied |-> job.applied,
                   applied_date |-> OrElse(job.applied_date, ""),
                   status |-> OrElse(job.status, "not_applied")]
  /\ isFormOpen' = TRUE
  /\ UNCHANGED <<remoteVars, cacheVars, loading, alertMsg, branch, now, ticks, tasks, user, viewVars>>

\* a check that forgets the position and the date
ValidCompanyOnly(f) == f.company # ""

\* the required-field check of handleSubmit
Valid(f) == f.company # "" /\ f.position # "" /\ f.date_found # ""

\* a payload that is the form as it stands
PayloadAsTyped(f) == f

\* the payload handleSubmit builds from the form
Payload(f) ==
  IF ~f.applied THEN [f EXCEPT !.applied_date = null, !.status = "not_applied"]
  ELSE f

\* handleSubmit up to its first await
HandleSubmit ==
  /\ isFormOpen
  /\ IF ~Valid(form)
     THEN /\ alertMsg' = "Company, position and date found are required."
          /\ UNCHANGED tasks
     ELSE /\ Spawn([IdleTask EXCEPT !.kind = "submit", !.pc = "w_sent",
                                    !.id = editingId, !.payload = Payload(form)])
          /\ UNCHANGED alertMsg
  /\ UNCHANGED <<remoteVars, cacheVars, loading, formVars, branch, now, ticks, user, viewVars>>

(* ----------------------- row buttons of the list ----------------------- *)

\* a handleDelete that drops the job locally before the store has answered
HandleDeleteOptimistic ==
  /\ branch # "unstarted"
  /\ ~loading
  /\ \E i \in 1..Len(visibleJobs) :
       /\ Spawn([IdleTask EXCEPT !.kind = "delete", !.pc = "d_sent",
                                 !.id = visibleJobs[i].id])
       /\ jobs' = WithoutId(jobs, visibleJobs[i].id)
       /\ ls' = SaveJobs(ls, WithoutId(jobs, visibleJobs[i].id))
  /\ UNCHANGED <<remoteVars, attachments, loading, formVars, alertMsg, branch, now,
                 ticks, user, viewVars>>

\* handleDelete(id) up to its await; window.confirm may be declined
HandleDelete ==
  /\ branch # "unstarted"
  /\ ~loading
  /\ \E i \in 1..Len(visibleJobs), confirmed \in BOOLEAN :
       IF confirmed
       THEN Spawn([IdleTask EXCEPT !.kind = "delete", !.pc = "d_sent",
                                   !.id = visibleJobs[i].id])
       ELSE UNCHANGED tasks
  /\ UNCHANGED <<remoteVars, cacheVars, loading, formVars, alertMsg, branch, now,
                 ticks, user, viewVars>>

\* the file input of a listed job: uploadJobAttachment up to its first await
HandleUpload ==
  /\ branch # "unstarted"
  /\ ~loading
  /\ \E i \in 1..Len(visibleJobs) :
       Spawn([IdleTask EXCEPT !.kind = "upload", !.pc = "b_sent",
                              !.id = visibleJobs[i].id,
                              !.path = BlobPath(visibleJobs[i].id, now)])
  /\ UNCHANGED <<remoteVars, cacheVars, loading, formVars, alertMsg, branch, now,
                 ticks, user, viewVars>>

\* the attachments listed under a job: attachments.filter(att.job_id === job.id)
Listed(att) == \E i \in 1..Len(visibleJobs) : att.job_id = visibleJobs[i].id

\* the Delete button of a listed attachment, up to its first await
HandleAttDelete ==
  /\ branch # "unstarted"
  /\ ~loading
  /\ \E i \in 1..Len(attachments) :
       /\ Listed(attachments[i])
       /\ Spawn([IdleTask EXCEPT !.kind = "attdel", !.pc = "rb_sent",
                                 !.id = attachments[i].id,
                                 !.path = attachments[i].file_path])
  /\ UNCHANGED <<remoteVars, cacheVars, loading, formVars, alertMsg, branch, now,
                 ticks, user, viewVars>>

(* -------------------------- the remote stores -------------------------- *)

clientVars ==
  <<jobs, attachments, loading, form, editingId, isFormOpen, alertMsg, ls,
    branch, now, ticks>>

\* the response reaches the task; it is then at the matching *_resp place
Respond(t, place, resp) ==
  tasks' = [tasks EXCEPT ![t].pc = place, ![t].resp = resp]

\* a remote call fails: nothing changes remotely
ServeError(t) ==
  /\ tasks[t].pc \in {"fj_sent", "fa_sent", "w_sent", "d_sent", "b_sent",
                      "m_sent", "rb_sent", "dm_sent"}
  /\ LET place == CASE tasks[t].pc = "fj_sent" -> "fj_resp"
                     [] tasks[t].pc = "fa_sent" -> "fa_resp"
                     [] tasks[t].pc = "w_sent" -> "w_resp"
                     [] tasks[t].pc = "d_sent" -> "d_resp"
                     [] tasks[t].pc = "b_sent" -> "b_resp"
                     [] tasks[t].pc = "m_sent" -> "m_resp"
                     [] tasks[t].pc = "rb_sent" -> "rb_resp"
                     [] OTHER -> "dm_resp"
     IN tasks' = [tasks EXCEPT ![t].pc = place, ![t].resp = Error,
                               ![t].payload = EmptyForm]
  /\ UNCHANGED <<remoteVars, clientVars, user, viewVars>>

\* row level security: a select returns the rows owned by the session's user
Rls(table, u) == SelectSeq(table, LAMBDA r : r.user_id = u)

\* from("jobs").select("*").order("created_at", desc)
ServeSelectJobs(t) ==
  /\ tasks[t].pc = "fj_sent"
  /\ Respond(t, "fj_resp", Data(Rls(remoteJobs, user), <<>>))
  /\ UNCHANGED <<remoteVars, clientVars, user, viewVars>>

\* from("job_attachments").select("*").order("created_at", desc)
ServeSelectAtts(t) ==
  /\ tasks[t].pc = "fa_sent"
  /\ Respond(t, "fa_resp", Data(<<>>, Rls(remoteAtts, user)))
  /\ UNCHANGED <<remoteVars, clientVars, user, viewVars>>

\* the jobs table after update(payload).eq("id", id)
Updated(table, id, payload) ==
  [i \in 1..Len(table) |->
     IF table[i].id = id
     THEN [JobRow(id, payload) EXCEPT !.created_at = table[i].created_at]
     ELSE table[i]]

\* from("jobs").insert(payload)
ServeInsertJob(t) ==
  /\ tasks[t].pc = "w_sent"
  /\ tasks[t].id = NoId
  /\ remoteJobs' = <<JobRow(srvSeq, tasks[t].payload)>> \o remoteJobs
  /\ srvSeq' = srvSeq + 1
  /\ tasks' = [tasks EXCEPT ![t].pc = "w_resp", ![t].resp = Data(<<>>, <<>>),
                            ![t].wrote = srvSeq, ![t].payload = EmptyForm]
  /\ UNCHANGED <<remoteAtts, blobs, clientVars, user, viewVars>>

\* from("jobs").update(payload).eq("id", editingId)
ServeUpdateJob(t) ==
  /\ tasks[t].pc = "w_sent"
  /\ tasks[t].id # NoId
  /\ remoteJobs' = Updated(remoteJobs, tasks[t].id, tasks[t].payload)
  /\ tasks' = [tasks EXCEPT ![t].pc = "w_resp", ![t].resp = Data(<<>>, <<>>),
                            ![t].wrote = tasks[t].id, ![t].payload = EmptyForm]
  /\ UNCHANGED <<remoteAtts, blobs, srvSeq, clientVars, user, viewVars>>

\* from("jobs").delete().eq("id", id); attachment rows are on delete cascade
ServeDeleteJob(t) ==
  /\ tasks[t].pc = "d_sent"
  /\ remoteJobs' = WithoutId(remoteJobs, tasks[t].id)
  /\ remoteAtts' = WithoutJob(remoteAtts, tasks[t].id)
  /\ Respond(t, "d_resp", Data(<<>>, <<>>))
  /\ UNCHANGED <<blobs, srvSeq, clientVars, user, viewVars>>

\* storage.from("job-attachments").upload(path, file); an existing path is refused
ServeUploadBlob(t) ==
  /\ tasks[t].pc = "b_sent"
  /\ tasks[t].path \notin blobs
  /\ blobs' = blobs \cup {tasks[t].path}
  /\ Respond(t, "b_resp", Data(<<>>, <<>>))
  /\ UNCHANGED <<remoteJobs, remoteAtts, srvSeq, clientVars, user, viewVars>>

\* from("job_attachments").insert({...}).select("*").single(); job_id
\* references a row of jobs
ServeInsertAtt(t) ==
  /\ tasks[t].pc = "m_sent"
  /\ tasks[t].id \in Ids(remoteJobs)
  /\ LET row == AttRow(srvSeq, tasks[t].id, tasks[t].path)
     IN /\ remoteAtts' = <<row>> \o remoteAtts
        /\ Respond(t, "m_resp", Data(<<>>, <<row>>))
  /\ srvSeq' = srvSeq + 1
  /\ UNCHANGED <<remoteJobs, blobs, clientVars, user, viewVars>>

\* storage.from("job-attachments").remove([att.file_path])
ServeRemoveBlob(t) ==
  /\ tasks[t].pc = "rb_sent"
  /\ blobs' = blobs \ {tasks[t].path}
  /\ Respond(t, "rb_resp", Data(<<>>, <<>>))
  /\ UNCHANGED <<remoteJobs, remoteAtts, srvSeq, clientVars, user, viewVars>>

\* from("job_attachments").delete().eq("id", att.id)
ServeDeleteAtt(t) ==
  /\ tasks[t].pc = "dm_sent"
  /\ remoteAtts' = WithoutId(remoteAtts, tasks[t].id)
  /\ Respond(t, "dm_resp", Data(<<>>, <<>>))
  /\ UNCHANGED <<remoteJobs, blobs, srvSeq, clientVars, user, viewVars>>

(* ------------------- the handlers after their awaits ------------------- *)

\* the handler returns; the id of the row it wrote is remembered
Finish(t) == tasks' = [tasks EXCEPT ![t] = [DoneTask EXCEPT !.wrote = tasks[t].wrote]]
Goto(t, place) == tasks' = [tasks EXCEPT ![t].pc = place, ![t].resp = NoResp]

\* a fetchJobs that returns on error before its setLoading(false)
RecvFetchJobsStuckOnError(t) ==
  /\ tasks[t].pc = "fj_resp"
  /\ IF tasks[t].resp.ok
     THEN /\ jobs' = tasks[t].resp.jobs
          /\ ls' = StampRefresh(SaveJobs(ls, tasks[t].resp.jobs), now)
          /\ loading' = FALSE
     ELSE UNCHANGED <<jobs, ls, loading>>
  /\ IF tasks[t].kind = "startup"
     THEN Goto(t, "fa_sent") /\ UNCHANGED isFormOpen
     ELSE Finish(t) /\ isFormOpen' = FALSE
  /\ UNCHANGED <<remoteVars, attachments, form, editingId, alertMsg, branch, now,
                 ticks, user, viewVars>>

\* fetchJobs after its await; then the caller goes on: the startup effect
\* calls fetchAttachments, handleSubmit closes the modal
RecvFetchJobs(t) ==
  /\ tasks[t].pc = "fj_resp"
  /\ IF tasks[t].resp.ok
     THEN /\ jobs' = tasks[t].resp.jobs
          /\ ls' = StampRefresh(SaveJobs(ls, tasks[t].resp.jobs), now)
     ELSE UNCHANGED <<jobs, ls>>
  /\ loading' = FALSE
  /\ IF tasks[t].kind = "startup"
     THEN Goto(t, "fa_sent") /\ UNCHANGED isFormOpen
     ELSE Finish(t) /\ isFormOpen' = FALSE
  /\ UNCHANGED <<remoteVars, attachments, form, editingId, alertMsg, branch, now,
                 ticks, user, viewVars>>

\* a fetchAttachments that stores data || [] whether or not the call failed
RecvFetchAttsIgnoringError(t) ==
  /\ tasks[t].pc = "fa_resp"
  /\ attachments' = tasks[t].resp.atts
  /\ ls' = StampRefresh(SaveAtts(ls, tasks[t].resp.atts), now)
  /\ Finish(t)
  /\ UNCHANGED <<remoteVars, jobs, loading, formVars, alertMsg, branch, now, ticks, user, viewVars>>

\* fetchAttachments after its await
RecvFetchAtts(t) ==
  /\ tasks[t].pc = "fa_resp"
  /\ IF tasks[t].resp.ok
     THEN /\ attachments' = tasks[t].resp.atts
          /\ ls' = StampRefresh(SaveAtts(ls, tasks[t].resp.atts), now)
     ELSE UNCHANGED <<attachments, ls>>
  /\ Finish(t)
  /\ UNCHANGED <<remoteVars, jobs, loading, formVars, alertMsg, branch, now, ticks, user, viewVars>>

\* a handleSubmit that closes without fetching the jobs again
RecvWriteNoRefetch(t) ==
  /\ tasks[t].pc = "w_resp"
  /\ IF tasks[t].resp.ok
     THEN ResetForm /\ isFormOpen' = FALSE
     ELSE UNCHANGED <<form, editingId, isFormOpen>>
  /\ Finish(t)
  /\ UNCHANGED <<remoteVars, cacheVars, loading, alertMsg, branch, now, ticks, user, viewVars>>

\* handleSubmit after the insert or update: on success resetForm and
\* fetchJobs up to its await
RecvWrite(t) ==
  /\ tasks[t].pc = "w_resp"
  /\ IF tasks[t].resp.ok
     THEN /\ ResetForm
          /\ loading' = TRUE
          /\ Goto(t, "fj_sent")
     ELSE /\ Finish(t)
          /\ UNCHANGED <<form, editingId, loading>>
  /\ UNCHANGED <<remoteVars, cacheVars, isFormOpen, alertMsg, branch, now, ticks, user, viewVars>>

\* a handleDelete that forgets the attachments of the job
RecvDeleteJobOnly(t) ==
  /\ tasks[t].pc = "d_resp"
  /\ IF tasks[t].resp.ok
     THEN /\ jobs' = WithoutId(jobs, tasks[t].id)
          /\ ls' = SaveJobs(ls, WithoutId(jobs, tasks[t].id))
     ELSE UNCHANGED <<jobs, ls>>
  /\ Finish(t)
  /\ UNCHANGED <<remoteVars, attachments, loading, formVars, alertMsg, branch, now,
                 ticks, user, viewVars>>

\* a handleDelete that also writes the refresh instant
RecvDeleteStamping(t) ==
  /\ tasks[t].pc = "d_resp"
  /\ IF tasks[t].resp.ok
     THEN LET updatedJobs == WithoutId(jobs, tasks[t].id)
              updatedAtts == WithoutJob(attachments, tasks[t].id)
          IN /\ jobs' = updatedJobs
             /\ attachments' = updatedAtts
             /\ ls' = StampRefresh(SaveAtts(SaveJobs(ls, updatedJobs), updatedAtts), now)
     ELSE UNCHANGED <<jobs, attachments, ls>>
  /\ Finish(t)
  /\ UNCHANGED <<remoteVars, loading, formVars, alertMsg, branch, now, ticks, user, viewVars>>

\* handleDelete after its await
RecvDelete(t) ==
  /\ tasks[t].pc = "d_resp"
  /\ IF tasks[t].resp.ok
     THEN LET updatedJobs == WithoutId(jobs, tasks[t].id)
              updatedAtts == WithoutJob(attachments, tasks[t].id)
          IN /\ jobs' = updatedJobs
             /\ attachments' = updatedAtts
             /\ ls' = SaveAtts(SaveJobs(ls, updatedJobs), updatedAtts)
     ELSE UNCHANGED <<jobs, attachments, ls>>
  /\ Finish(t)
  /\ UNCHANGED <<remoteVars, loading, formVars, alertMsg, branch, now, ticks, user, viewVars>>

\* an uploadJobAttachment that inserts the metadata row whatever the
\* blob upload answered
RecvUploadBlobIgnoringError(t) ==
  /\ tasks[t].pc = "b_resp"
  /\ Goto(t, "m_sent")
  /\ UNCHANGED <<remoteVars, cacheVars, loading, formVars, alertMsg, branch, now,
                 ticks, user, viewVars>>

\* uploadJobAttachment after the blob upload
RecvUploadBlob(t) ==
  /\ tasks[t].pc = "b_resp"
  /\ IF tasks[t].resp.ok
     THEN Goto(t, "m_sent") /\ UNCHANGED alertMsg
     ELSE Finish(t) /\ alertMsg' = "Failed to upload attachment"
  /\ UNCHANGED <<remoteVars, cacheVars, loading, formVars, branch, now, ticks, user, viewVars>>

\* a file input that puts the new row after the entries already there
RecvUploadMetaAppending(t) ==
  /\ tasks[t].pc = "m_resp"
  /\ IF tasks[t].resp.ok
     THEN LET updated == attachments \o tasks[t].resp.atts
          IN /\ attachments' = updated
             /\ ls' = SaveAtts(ls, updated)
             /\ UNCHANGED alertMsg
     ELSE /\ alertMsg' = "Failed to upload attachment"
          /\ UNCHANGED <<attachments, ls>>
  /\ Finish(t)
  /\ UNCHANGED <<remoteVars, jobs, loading, formVars, branch, now, ticks, user, viewVars>>

\* uploadJobAttachment after the metadata insert, and the rest of the
\* file input's onChange
RecvUploadMeta(t) ==
  /\ tasks[t].pc = "m_resp"
  /\ IF tasks[t].resp.ok
     THEN LET updated == tasks[t].resp.atts \o attachments
          IN /\ attachments' = updated
             /\ ls' = SaveAtts(ls, updated)
             /\ UNCHANGED alertMsg
     ELSE /\ alertMsg' = "Failed to upload attachment"
          /\ UNCHANGED <<attachments, ls>>
  /\ Finish(t)
  /\ UNCHANGED <<remoteVars, jobs, loading, formVars, branch, now, ticks, user, viewVars>>

\* a Delete button that goes on to the metadata delete whatever
\* storage.remove answered
RecvRemoveBlobIgnoringError(t) ==
  /\ tasks[t].pc = "rb_resp"
  /\ Goto(t, "dm_sent")
  /\ UNCHANGED <<remoteVars, cacheVars, loading, formVars, alertMsg, branch, now,
                 ticks, user, viewVars>>

\* the attachment Delete button after storage.remove
RecvRemoveBlob(t) ==
  /\ tasks[t].pc = "rb_resp"
  /\ IF tasks[t].resp.ok
     THEN Goto(t, "dm_sent") /\ UNCHANGED alertMsg
     ELSE Finish(t) /\ alertMsg' = "Failed to delete file"
  /\ UNCHANGED <<remoteVars, cacheVars, loading, formVars, branch, now, ticks, user, viewVars>>

\* the attachment Delete button after the metadata delete
RecvDeleteAtt(t) ==
  /\ tasks[t].pc = "dm_resp"
  /\ IF tasks[t].resp.ok
     THEN LET updated == WithoutId(attachments, tasks[t].id)
          IN /\ attachments' = updated
             /\ ls' = SaveAtts(ls, updated)
             /\ UNCHANGED alertMsg
     ELSE /\ alertMsg' = "Failed to delete attachment record"
          /\ UNCHANGED <<attachments, ls>>
  /\ Finish(t)
  /\ UNCHANGED <<remoteVars, jobs, loading, formVars, branch, now, ticks, user, viewVars>>

(* ------------------------------ the session ---------------------------- *)

\* the Sign out button: supabase.auth.signOut() and window.location.reload().
\* The reload constructs the page anew and abandons the handlers under way;
\* localStorage is not touched.  The session ends unless signOut failed.
SignOut ==
  /\ user # NoUser
  /\ branch # "unstarted"
  /\ user' \in {NoUser, user}
  /\ jobs' = <<>>
  /\ attachments' = <<>>
  /\ loading' = TRUE
  /\ form' = EmptyForm
  /\ editingId' = NoId
  /\ isFormOpen' = FALSE
  /\ alertMsg' = ""
  /\ branch' = "unstarted"
  /\ tasks' = [t \in TaskIds |-> IdleTask]
  /\ searchTerm' = ""
  /\ statusFilter' = "all"
  /\ appliedFilter' = "all"
  /\ sortKey' = "applied"
  /\ sortDirection' = "desc"
  /\ currentPage' = 1
  /\ pageSize' = 10
  /\ UNCHANGED <<remoteVars, ls, now, ticks>>

\* AuthScreen's handleSubmit, sign_in mode, and the onAuthStateChange
\* callback of the App root: JobTracker is rendered for the new session
SignIn ==
  /\ user = NoUser
  /\ user' \in {User, Other}
  /\ UNCHANGED <<remoteVars, cacheVars, loading, formVars, alertMsg, branch, now,
                 ticks, tasks, viewVars>>

(* --------------------------- specification ----------------------------- *)

FormStep(inputs) ==
  \/ OpenForNewJob
  \/ CloseForm
  \/ HandleChange(inputs)
  \/ HandleEdit
  \/ HandleSubmit

RowStep ==
  \/ HandleDelete
  \/ HandleUpload
  \/ HandleAttDelete

ServeFetch(t) ==
  \/ ServeError(t)
  \/ ServeSelectJobs(t)
  \/ ServeSelectAtts(t)

ServeJobWrite(t) ==
  \/ ServeInsertJob(t)
  \/ ServeUpdateJob(t)

ServeRow(t) ==
  \/ ServeDeleteJob(t)
  \/ ServeUploadBlob(t)
  \/ ServeInsertAtt(t)
  \/ ServeRemoveBlob(t)
  \/ ServeDeleteAtt(t)

RecvFetch(t) ==
  \/ RecvFetchJobs(t)
  \/ RecvFetchAtts(t)

RecvRow(t) ==
  \/ RecvDelete(t)
  \/ RecvUploadBlob(t)
  \/ RecvUploadMeta(t)
  \/ RecvRemoveBlob(t)
  \/ RecvDeleteAtt(t)

\* the whole component
Next ==
  \/ Startup
  \/ Tick
  \/ FormStep(RequiredInputs)
  \/ RowStep
  \/ \E t \in TaskIds : ServeFetch(t) \/ ServeJobWrite(t) \/ ServeRow(t)
  \/ \E t \in TaskIds : RecvFetch(t) \/ RecvWrite(t) \/ RecvRow(t)

Spec == Init /\ [][Next]_vars

\* startup and the two fetches alone, from every localStorage content
NextStart ==
  \/ Startup
  \/ Tick
  \/ \E t \in TaskIds : ServeFetch(t)
  \/ \E t \in TaskIds : RecvFetch(t)

SpecStart == InitStart /\ [][NextStart]_vars

\* no insert or update of an earlier submission is still on its way
NoWritePending == \A t \in TaskIds : tasks[t].pc \notin {"w_sent", "w_resp"}

\* the job form with every input, from a fresh cache, for a user who waits
\* for the answer to one submission before changing the form again
NextForm ==
  \/ Startup
  \/ NoWritePending /\ FormStep(FormInputs)
  \/ NoWritePending /\ HandleChangeApplied
  \/ \E t \in TaskIds : ServeError(t) \/ ServeSelectJobs(t) \/ ServeJobWrite(t)
  \/ \E t \in TaskIds : RecvFetchJobs(t) \/ RecvWrite(t)

SpecForm == InitForm /\ [][NextForm]_vars

\* a fresh cache of the given tables
CacheOf(rjobs, ratts) ==
  [jobs |-> Stringify(rjobs), atts |-> Stringify(ratts), last |-> Stamp(StartMs)]

\* number of rows of the jobs table whose rows are deleted
RowJobs == 3

\* job deletes on a list of several jobs, two of them with attachments
InitRows ==
  InitOn(JobList(RowJobs), AttList(RowJobs),
         {CacheOf(JobList(RowJobs), AttList(RowJobs))})

NextRows ==
  \/ Startup
  \/ HandleDelete
  \/ \E t \in TaskIds : ServeError(t) \/ ServeDeleteJob(t)
  \/ \E t \in TaskIds : RecvDelete(t)

SpecRows == InitRows /\ [][NextRows]_vars

\* number of rows of the jobs table that is searched and sorted
QueryJobs == 7

\* what the user types into the search input
Terms == {"", " ", "me", "ME ", "zz"}

StatusOptions == {"all", "not_applied", "pending", "interview", "offer", "rejected"}
SortKeys == {"date_found", "company", "position", "applied", "status"}

\* the filter and sort controls over a cached list
InitQuery ==
  InitOn(JobList(QueryJobs), AttList(QueryJobs),
         {CacheOf(JobList(QueryJobs), AttList(QueryJobs))})

NextQuery ==
  \/ Startup
  \/ SetSearchTerm(Terms)
  \/ SetStatusFilter(StatusOptions)
  \/ SetAppliedFilter
  \/ SetSortKey(SortKeys)
  \/ ToggleSortDirection
  \/ HandleSort(SortKeys)

SpecQuery == InitQuery /\ [][NextQuery]_vars

\* the list lengths at and just above each page size, and the shortest two
PageCounts == {0, 1} \cup PageSizes \cup {size + 1 : size \in PageSizes}

\* the pagination controls over cached lists of these lengths
InitPages ==
  \E n \in PageCounts : InitOn(JobList(n), <<>>, {CacheOf(JobList(n), <<>>)})

NextPages ==
  \/ Startup
  \/ SetAppliedFilter
  \/ SetPageSize
  \/ FirstPage
  \/ PreviousPage
  \/ NextPage
  \/ LastPage
  \/ ToggleSortDirection

SpecPages == InitPages /\ [][NextPages]_vars

\* number of rows of the jobs table that is paged through
ListJobs == 11

\* the last page shows a single row
OnlyRowOfLastPage == totalPages > 1 /\ safePage = totalPages /\ Len(visibleJobs) = 1

\* no job delete is waiting for its answer
NoDeletePending == \A t \in TaskIds : tasks[t].kind # "delete"

\* the list with all its controls.  Either nothing is cached and the table
\* is long, or a long list is cached, older than the time-to-live, and the
\* table has since shrunk to two rows.  The user deletes a job only where
\* that empties the page on display, and waits for the answer.
InitList ==
  \/ InitOn(JobList(ListJobs), AttList(ListJobs), {EmptyStore})
  \/ InitOn(JobList(2), AttList(2),
            {[CacheOf(JobList(ListJobs), AttList(ListJobs))
                EXCEPT !.last = Stamp(StartMs - CACHE_TTL_MS - 1)]})

NextList ==
  \/ Startup
  \/ NoDeletePending /\ SetSearchTerm({"", "me"})
  \/ NoDeletePending /\ SetStatusFilter({"all", "not_applied"})
  \/ NoDeletePending /\ SetAppliedFilter
  \/ NoDeletePending /\ SetPageSize
  \/ NoDeletePending /\ SetSortKey({"applied", "company"})
  \/ NoDeletePending /\ ToggleSortDirection
  \/ NoDeletePending /\ HandleSort({"applied", "company"})
  \/ NoDeletePending /\ FirstPage
  \/ NoDeletePending /\ PreviousPage
  \/ NoDeletePending /\ NextPage
  \/ NoDeletePending /\ LastPage
  \/ NoDeletePending /\ OnlyRowOfLastPage /\ HandleDelete
  \/ \E t \in TaskIds : ServeFetch(t) \/ ServeDeleteJob(t)
  \/ \E t \in TaskIds : RecvFetch(t) \/ RecvDelete(t)

SpecList == InitList /\ [][NextList]_vars

\* number of jobs in a cache older than the time-to-live, and number of
\* them still in the remote table
CachedJobs == 31
KeptJobs == 11

\* the list is paged through while the background refresh of a long cached
\* list brings a shorter one
InitShrink ==
  InitOn(JobList(KeptJobs), AttList(KeptJobs),
         {[CacheOf(JobList(CachedJobs), AttList(CachedJobs))
             EXCEPT !.last = Stamp(StartMs - CACHE_TTL_MS - 1)]})

NextShrink ==
  \/ Startup
  \/ SetPageSize
  \/ ToggleSortDirection
  \/ FirstPage
  \/ PreviousPage
  \/ NextPage
  \/ LastPage
  \/ \E t \in TaskIds : ServeFetch(t)
  \/ \E t \in TaskIds : RecvFetch(t)

SpecShrink == InitShrink /\ [][NextShrink]_vars

\* the page is opened and jobs are created and updated; the effect runs
\* once the component is mounted, every remote call is answered, with rows
\* or with an error, and every answer is handled
NextLive ==
  \/ Startup
  \/ FormStep(RequiredInputs)
  \/ \E t \in TaskIds : ServeFetch(t) \/ ServeJobWrite(t)
  \/ \E t \in TaskIds : RecvFetch(t) \/ RecvWrite(t)

Answered ==
  \A t \in TaskIds : /\ WF_vars(ServeFetch(t) \/ ServeJobWrite(t))
                     /\ WF_vars(RecvFetch(t) \/ RecvWrite(t))

SpecLive == Init /\ [][NextLive]_vars /\ WF_vars(Startup) /\ Answered

\* one browser used by two accounts in turn, from an empty localStorage
InitSession == InitWith({EmptyStore})

NextSession ==
  \/ Startup
  \/ Tick
  \/ SignOut
  \/ SignIn
  \/ \E t \in TaskIds : ServeFetch(t)
  \/ \E t \in TaskIds : RecvFetch(t)

SpecSession == InitSession /\ [][NextSession]_vars

\* the startup effect has got past its fetchJobs
JobsFetched ==
  \E t \in TaskIds : /\ tasks[t].kind \in {"startup", "done"}
                     /\ tasks[t].pc \in {"fa_sent", "fa_resp", "done"}

\* no handleSubmit is under way, so no fetchJobs of one
NoSubmitPending == \A t \in TaskIds : tasks[t].kind # "submit"

\* the startup refresh with a job saved meanwhile, every remote call
\* succeeding: the fetchAttachments of the effect is under way while
\* handleSubmit calls fetchJobs.  The user waits for one submission to be
\* over before the next, so that one fetchJobs runs at a time.
InitConc == InitWith({EmptyStore, StaleStore})

NextConc ==
  \/ Startup
  \/ OpenForNewJob
  \/ CloseForm
  \/ HandleChange(RequiredInputs)
  \/ HandleEdit
  \/ JobsFetched /\ NoSubmitPending /\ HandleSubmit
  \/ \E t \in TaskIds : ServeSelectJobs(t) \/ ServeSelectAtts(t)
  \/ \E t \in TaskIds : ServeJobWrite(t)
  \/ \E t \in TaskIds : RecvFetch(t) \/ RecvWrite(t)

SpecConc == InitConc /\ [][NextConc]_vars

(* ------------------------------- claims -------------------------------- *)

RequiredMsg == "Company, position and date found are required."

\* a row or payload obeys the write-time invariant of a job record
Normalized(r) == ~r.applied => (r.applied_date = null /\ r.status = "not_applied")

\* C1: every insert or update request the form sends, and so every row of
\* the remote jobs table written by it, has applied_date = null and
\* status = "not_applied" whenever its applied flag is false.
C1_NormalizedWrites ==
  /\ \A t \in TaskIds : tasks[t].pc = "w_sent" => Normalized(tasks[t].payload)
  /\ \A i \in 1..Len(remoteJobs) : Normalized(remoteJobs[i])

\* a write is on its way whose form still shows applied = false together
\* with a date and a status other than not_applied
C1_Witness ==
  /\ ~form.applied /\ form.applied_date = Today /\ form.status = "interview"
  /\ \E t \in TaskIds :
       /\ tasks[t].pc = "w_sent"
       /\ tasks[t].payload = [form EXCEPT !.applied_date = null,
                                          !.status = "not_applied"]

\* C2: a submission with company, position or date-found empty sends no
\* request and leaves the collections, the three slots, the form and the
\* editing identifier as they were.
C2_InvalidSubmitChangesNothing ==
  [][(HandleSubmit /\ (form.company = "" \/ form.position = ""
                                          \/ form.date_found = ""))
       => UNCHANGED <<remoteVars, jobs, attachments, ls, form, editingId, tasks>>]_vars

\* the alert of a refused submission has been shown for a form whose date
\* alone is missing, and no handler was started
C2_Witness ==
  /\ alertMsg = RequiredMsg
  /\ form.company # "" /\ form.position # "" /\ form.date_found = ""
  /\ \A t \in TaskIds : tasks[t].kind = "idle"

\* the handlers that change remote data
Mutations == {"submit", "delete", "upload", "attdel"}

\* task t takes the step
Steps(t) == tasks'[t] # tasks[t]

\* C3: a step of a create, update, job delete, attachment upload or
\* attachment delete changes the collections or the slots only when it
\* receives the successful response to the last remote call of the handler;
\* starting the handler, an intermediate response and any failed response
\* leave both collections and all three slots as they were.
C3_NoOptimisticMutation ==
  [][\A t \in TaskIds :
       (Steps(t) /\ (tasks[t].kind \in Mutations \/ tasks'[t].kind \in Mutations)
                 /\ <<jobs, attachments, ls>>' # <<jobs, attachments, ls>>)
         => (tasks[t].resp.ok
             /\ tasks[t].pc \in {"fj_resp", "d_resp", "m_resp", "dm_resp"})]_vars

\* an attachment delete whose blob removal succeeded and whose metadata
\* delete failed: the entry is still in the collection and in its slot
C3_Witness ==
  /\ alertMsg = "Failed to delete attachment record"
  /\ Path1 \notin blobs
  /\ attachments = <<Att1>>
  /\ ls.atts = Stringify(<<Att1>>)

C5_Original ==
  (branch = "initial" /\ ~loading) => \A t \in TaskIds : tasks[t].kind # "startup"

\* C5 amended: a start with neither slot present leaves loading set, and
\* from then on loading is cleared only by a step that completes a fetchJobs
\* call; the attachments fetch is not waited for.
C5_LoadedAfterFetchJobs ==
  [][/\ (branch = "unstarted" /\ branch' # "unstarted"
          /\ ls.jobs.k = "absent" /\ ls.atts.k = "absent")
        => (branch' = "initial" /\ loading')
     /\ (branch = "initial" /\ loading /\ ~loading')
        => \E t \in TaskIds : tasks[t].pc = "fj_resp" /\ Steps(t)]_vars

\* after a start with neither slot present the view reports loaded while
\* the attachments fetch of the startup effect is still outstanding
C5_Witness ==
  /\ branch = "initial"
  /\ ~loading
  /\ \E t \in TaskIds : tasks[t].kind = "startup" /\ tasks[t].pc = "fa_sent"

\* what hydration shows for a slot: its list, or nothing when it is missing
\* or unparseable
Shown(slot) == IF slot.k = "json" THEN slot.v ELSE <<>>

\* the age of the cache as the policy computes it
Age == now - (IF ls.last.k = "absent" THEN 0 ELSE ls.last.v)

\* the startup effect runs in this step
Starts == branch = "unstarted" /\ branch' # "unstarted"

\* C6: a start with a slot present and an age above five minutes reports
\* loaded in the same step, shows the cached collections and sends the jobs
\* request of a background refresh; the refresh goes on to the attachments
\* request whatever the jobs request returned, and no step of it sets
\* loading again.
C6_StaleWhileRevalidate ==
  [][/\ (Starts /\ (ls.jobs.k # "absent" \/ ls.atts.k # "absent")
                /\ Age > CACHE_TTL_MS)
        => /\ ~loading'
           /\ jobs' = Shown(ls.jobs)
           /\ attachments' = Shown(ls.atts)
           /\ \E t \in TaskIds :
                /\ tasks[t].kind = "idle"
                /\ tasks'[t].kind = "startup"
                /\ tasks'[t].pc = "fj_sent"
     /\ \A t \in TaskIds :
          (Steps(t) /\ tasks[t].kind = "startup")
            => /\ tasks[t].pc = "fj_resp" => tasks'[t].pc = "fa_sent"
               /\ ~loading => ~loading']_vars

\* a stale cache is shown as loaded while the jobs request of the
\* background refresh is on its way
C6_Witness ==
  /\ branch = "stale"
  /\ ~loading
  /\ jobs = <<Job1>>
  /\ attachments = <<Att1>>
  /\ \E t \in TaskIds : tasks[t].kind = "startup" /\ tasks[t].pc = "fj_sent"

\* C7: a start with a slot present and an age of at most five minutes
\* reports loaded in the same step and starts no request; every request of
\* such a session belongs to a handler the user started.
C7_FreshNoNetwork ==
  [][/\ (Starts /\ (ls.jobs.k # "absent" \/ ls.atts.k # "absent")
                /\ Age <= CACHE_TTL_MS)
        => (~loading' /\ tasks' = tasks /\ branch' = "fresh")
     /\ branch' = "fresh"
        => \A t \in TaskIds : tasks'[t].kind \in Mutations \cup {"idle", "done"}]_vars

\* a session that started from a fresh cache has a request on its way,
\* sent by a job delete the user asked for
C7_Witness ==
  /\ branch = "fresh"
  /\ \E t \in TaskIds : tasks[t].kind = "delete" /\ tasks[t].pc = "d_sent"

\* C8 as stated: the startup effect treats an unparseable slot as a missing
\* one: the collections are hydrated from the parseable slots, and the
\* branch (blocking initial fetch, background refresh, no fetch) is the one
\* for the slots that parse.
C8_CorruptAsAbsent ==
  [][Starts =>
       LET none == ls.jobs.k # "json" /\ ls.atts.k # "json"
           fetches == none \/ Age > CACHE_TTL_MS
       IN /\ jobs' = Shown(ls.jobs)
          /\ attachments' = Shown(ls.atts)
          /\ loading' = none
          /\ fetches <=> \E t \in TaskIds : tasks'[t].pc = "fj_sent"]_vars

\* C9: the step that applies a successful fetchJobs sets the job
\* collection to the returned list, writes that list to the jobs slot and
\* the current time to the last-refresh slot, and leaves the attachment
\* collection and its slot alone; a successful fetchAttachments does the
\* same for the attachments and leaves the jobs alone.
C9_FetchReplaces ==
  [][\A t \in TaskIds :
       (Steps(t) /\ tasks[t].resp.ok)
         => /\ tasks[t].pc = "fj_resp"
                 => /\ jobs' = tasks[t].resp.jobs
                    /\ ls'.jobs = Stringify(tasks[t].resp.jobs)
                    /\ ls'.last = Stamp(now)
                    /\ attachments' = attachments
                    /\ ls'.atts = ls.atts
            /\ tasks[t].pc = "fa_resp"
                 => /\ attachments' = tasks[t].resp.atts
                    /\ ls'.atts = Stringify(tasks[t].resp.atts)
                    /\ ls'.last = Stamp(now)
                    /\ jobs' = jobs
                    /\ ls'.jobs = ls.jobs]_vars

\* after a start with nothing cached both fetches have succeeded: the
\* collections and slots hold the remote tables and the stamp is the
\* current time
C9_Witness ==
  /\ branch = "initial"
  /\ \A t \in TaskIds : tasks[t].kind # "startup"
  /\ jobs = remoteJobs /\ jobs # <<>>
  /\ attachments = remoteAtts /\ attachments # <<>>
  /\ ls = [jobs |-> Stringify(jobs), atts |-> Stringify(attachments),
           last |-> Stamp(now)]

\* C10: the step that receives a failed fetchJobs or fetchAttachments
\* leaves both collections and all three slots as they were and does not
\* send the request again.
C10_FailedFetchKeepsState ==
  [][\A t \in TaskIds :
       (Steps(t) /\ ~tasks[t].resp.ok /\ tasks[t].pc \in {"fj_resp", "fa_resp"})
         => /\ UNCHANGED <<jobs, attachments, ls>>
            /\ tasks[t].pc = "fj_resp" => tasks'[t].pc # "fj_sent"
            /\ tasks[t].pc = "fa_resp" => tasks'[t].pc # "fa_sent"
            /\ \A u \in TaskIds \ {t} : tasks'[u] = tasks[u]]_vars

\* after a start with nothing cached both fetches have failed: the view
\* reports loaded with empty collections and untouched slots
C10_Witness ==
  /\ branch = "initial"
  /\ ~loading
  /\ \E t \in TaskIds : tasks[t].kind = "done"
  /\ \A t \in TaskIds : tasks[t].kind \in {"idle", "done"}
  /\ tasks[1].wrote = NoId
  /\ jobs = <<>> /\ attachments = <<>>
  /\ ls = EmptyStore

\* the list is on display
Displayed == user # NoUser /\ branch # "unstarted" /\ ~loading

\* C11 as stated: whoever is signed in, every job and attachment entry on
\* display is owned by that user.
C11_OwnRecordsOnly ==
  Displayed
    => /\ \A i \in 1..Len(jobs) : jobs[i].user_id = user
       /\ \A i \in 1..Len(attachments) : attachments[i].user_id = user

\* after is before without the entries at the positions hit, the others in
\* their order
Without(before, after, hit) ==
  /\ Len(after) = Len(before) - Cardinality(hit)
  /\ \A i \in (1..Len(before)) \ hit :
       after[i - Cardinality({h \in hit : h < i})] = before[i]

\* C12: the step that receives the successful answer to a job delete takes
\* exactly the job with that id out of the job collection and the jobs slot
\* and exactly the attachment entries of that job out of the attachment
\* collection and the attachments slot; every other entry stays, in order.
C12_DeleteRemovesExactly ==
  [][\A t \in TaskIds :
       (Steps(t) /\ tasks[t].pc = "d_resp" /\ tasks[t].resp.ok)
         => LET id == tasks[t].id
                wasJobs == Shown(ls.jobs)
                wasAtts == Shown(ls.atts)
            IN /\ Without(jobs, jobs', {i \in 1..Len(jobs) : jobs[i].id = id})
               /\ Without(attachments, attachments',
                          {i \in 1..Len(attachments) : attachments[i].job_id = id})
               /\ Parses(ls'.jobs) /\ Parses(ls'.atts)
               /\ Without(wasJobs, ls'.jobs.v,
                          {i \in 1..Len(wasJobs) : wasJobs[i].id = id})
               /\ Without(wasAtts, ls'.atts.v,
                          {i \in 1..Len(wasAtts) : wasAtts[i].job_id = id})]_vars

\* the newest of three jobs has been deleted: its two attachment entries
\* are gone, the entry between them is left, the two older jobs are left in
\* order, and the slots hold the same
C12_Witness ==
  /\ jobs = <<SampleJob(2), SampleJob(1)>>
  /\ attachments = <<AttRow(2, 2, BlobPath(2, 2))>>
  /\ ls.jobs = Stringify(jobs)
  /\ ls.atts = Stringify(attachments)

\* v, or the empty string when v is null, in lower case
Lowered(v) == ToLowerCase(Chars(IF v = null THEN "" ELSE v))

\* the lower-case term is found in one of the four searched fields
Found(term, job) ==
  \/ Includes(Lowered(job.company), term)
  \/ Includes(Lowered(job.position), term)
  \/ Includes(Lowered(job.description), term)
  \/ Includes(Lowered(job.source_url), term)

\* predicates (b) and (c) of the filter
StatusOk(job) ==
  statusFilter = "all"
    \/ statusFilter = (IF job.status = null THEN "not_applied" ELSE job.status)
AppliedOk(job) ==
  \/ appliedFilter = "all"
  \/ appliedFilter = "applied" /\ job.applied
  \/ appliedFilter = "not_applied_only" /\ ~job.applied

\* C13 as stated: a job is in the filtered list exactly when the search
\* term is empty or its lower-case form is found in a searched field, and
\* the status and applied filters let it through.
C13_Original ==
  branch # "unstarted"
    => \A i \in 1..Len(jobs) :
         (jobs[i] \in Elems(filteredJobs))
           <=> /\ \/ Chars(searchTerm) = <<>>
                  \/ Found(ToLowerCase(Chars(searchTerm)), jobs[i])
               /\ StatusOk(jobs[i])
               /\ AppliedOk(jobs[i])

\* the search predicate on the term with its surrounding white space removed
SearchOk(job) ==
  LET term == ToLowerCase(Trim(Chars(searchTerm)))
  IN term = <<>> \/ Found(term, job)

\* C13 amended: a job is in the filtered list exactly when (a) the search
\* term, trimmed of surrounding white space, is empty or its lower-case form
\* is found in the lower-case company, position, description or source URL,
\* (b) the status filter lets it through and (c) the applied filter lets it
\* through; the three predicates give the same list in every order.
C13_Filter ==
  branch # "unstarted"
    => /\ \A i \in 1..Len(jobs) :
            (jobs[i] \in Elems(filteredJobs))
              <=> (SearchOk(jobs[i]) /\ StatusOk(jobs[i]) /\ AppliedOk(jobs[i]))
       /\ filteredJobs = SelectSeq(SelectSeq(SelectSeq(jobs, SearchOk), StatusOk), AppliedOk)
       /\ filteredJobs = SelectSeq(SelectSeq(SelectSeq(jobs, SearchOk), AppliedOk), StatusOk)
       /\ filteredJobs = SelectSeq(SelectSeq(SelectSeq(jobs, StatusOk), SearchOk), AppliedOk)
       /\ filteredJobs = SelectSeq(SelectSeq(SelectSeq(jobs, StatusOk), AppliedOk), SearchOk)
       /\ filteredJobs = SelectSeq(SelectSeq(SelectSeq(jobs, AppliedOk), SearchOk), StatusOk)
       /\ filteredJobs = SelectSeq(SelectSeq(SelectSeq(jobs, AppliedOk), StatusOk), SearchOk)

\* an upper-case term with a trailing blank, a status and the applied
\* filter together leave the two interviews at Acme
C13_Witness ==
  /\ searchTerm = "ME "
  /\ statusFilter = "interview"
  /\ appliedFilter = "applied"
  /\ Len(jobs) = QueryJobs
  /\ filteredJobs = <<SampleJob(5), SampleJob(1)>>

\* the position of a row in a list of distinct rows
IndexIn(s, x) == CHOOSE i \in 1..Len(s) : s[i] = x

\* key a does not come after key b in ascending order
KeyLeq(a, b) == IF sortKey = "applied" THEN a <= b ELSE LocaleCompare(a, b) <= 0

\* C14: for every sort key and both directions the sorted list is a
\* permutation of the filtered list, ordered by the sort value (ascending
\* for asc, descending for desc), and rows with equal sort values keep the
\* relative order they have in the filtered list.
C14_StableSort ==
  branch # "unstarted"
    => /\ Len(sortedJobs) = Len(filteredJobs)
       /\ Elems(sortedJobs) = Elems(filteredJobs)
       /\ \A i, j \in 1..Len(sortedJobs) :
            i < j =>
              LET a == getSortValue(sortedJobs[i])
                  b == getSortValue(sortedJobs[j])
              IN /\ sortDirection = "asc" => KeyLeq(a, b)
                 /\ sortDirection = "desc" => KeyLeq(b, a)
                 /\ a = b => IndexIn(filteredJobs, sortedJobs[i])
                               < IndexIn(filteredJobs, sortedJobs[j])

\* by company, descending: the two Bolt rows first, then the five rows of
\* Acme and acme, which compare equal, in the order of the unsorted list
C14_Witness ==
  /\ sortKey = "company"
  /\ sortDirection = "desc"
  /\ filteredJobs = JobList(QueryJobs)
  /\ sortedJobs = <<SampleJob(6), SampleJob(3), SampleJob(7), SampleJob(5),
                    SampleJob(4), SampleJob(2), SampleJob(1)>>

\* pages 1..n of the list s, one after the other
RECURSIVE PagesUpTo(_, _, _)
PagesUpTo(s, n, size) ==
  IF n = 0 THEN <<>> ELSE PagesUpTo(s, n - 1, size) \o PageOf(s, n, size)

\* C15: the page count is max(1, ceil(n / pageSize)) for the filtered-set
\* size n, every page holds at most pageSize records, and pages
\* 1..pageCount, one after the other, are the sorted list: every record is
\* on exactly one page.
C15_PagesPartition ==
  branch # "unstarted"
    => LET n == Len(filteredJobs)
           sorted == sortedJobs
           count == totalPages
       IN /\ pageSize \in PageSizes
          /\ count >= 1
          /\ count * pageSize >= n
          /\ count > 1 => (count - 1) * pageSize < n
          /\ \A page \in 1..count : Len(PageOf(sorted, page, pageSize)) <= pageSize
          /\ PagesUpTo(sorted, count, pageSize) = sorted

\* fifty-one jobs at fifty rows per page: the second page shows the last one
C15_Witness ==
  /\ Len(jobs) = 51
  /\ pageSize = 50
  /\ totalPages = 2
  /\ currentPage = 2
  /\ visibleJobs = <<sortedJobs[51]>>

\* C16: whatever the user and the fetches have done, the page on display
\* lies between 1 and max(1, ceil(n / pageSize)) for the size n of the
\* filtered set, and the visible slice is non-empty whenever the filtered
\* set is.
C16_PageInRange ==
  branch # "unstarted"
    => LET n == Len(filteredJobs)
           last == IF n = 0 THEN 1 ELSE (n + pageSize - 1) \div pageSize
       IN /\ 1 <= safePage
          /\ safePage <= last
          /\ n > 0 => Len(visibleJobs) > 0

\* the only row of the second page has been deleted: the current page is
\* still 2, the page on display is the first and only one
C16_Witness ==
  /\ Len(jobs) = ListJobs - 1
  /\ currentPage = 2
  /\ totalPages = 1
  /\ safePage = 1
  /\ Len(visibleJobs) = Len(jobs)

\* C17: a step that changes the search term, the status filter, the
\* applied filter or the page size sets the current page to 1; First,
\* Previous, Next and Last, which always move the current page, change
\* nothing else.
C17_ResetAndNavigate ==
  [][/\ (\/ searchTerm' # searchTerm
          \/ statusFilter' # statusFilter
          \/ appliedFilter' # appliedFilter
          \/ pageSize' # pageSize) => currentPage' = 1
     /\ (currentPage' # currentPage
          /\ (FirstPage \/ PreviousPage \/ NextPage \/ LastPage))
          => UNCHANGED <<searchTerm, statusFilter, appliedFilter, sortKey,
                         sortDirection, pageSize, jobs, attachments, ls>>]_vars

\* the second page of the list sorted by company, ascending: reached with
\* Next or Last after the sort was chosen
C17_Witness ==
  /\ currentPage = 2
  /\ safePage = 2
  /\ sortKey = "company"
  /\ sortDirection = "asc"
  /\ pageSize = 10

\* C18 as stated: every step that changes the sort key sets the direction
\* to asc, and every step that changes the sort key or the direction sets
\* the current page to 1.
C18_SortControls ==
  [][/\ sortKey' # sortKey => sortDirection' = "asc"
     /\ (sortKey' # sortKey \/ sortDirection' # sortDirection)
          => currentPage' = 1]_vars

\* no handler is between a request and the rest of its code
Settled ==
  /\ branch \in {"initial", "stale"}
  /\ \A t \in TaskIds : tasks[t].pc \in {"idle", "done"}

\* the fetch whose response task t holds brings what the previous one brought
RepeatsJobs(t) ==
  /\ tasks[t].pc = "fj_resp" /\ tasks'[t].pc # "fj_resp"
  /\ tasks[t].resp.ok
  /\ tasks[t].resp.jobs = jobs
  /\ ls.jobs = Stringify(jobs)

RepeatsAtts(t) ==
  /\ tasks[t].pc = "fa_resp" /\ tasks'[t].pc # "fa_resp"
  /\ tasks[t].resp.ok
  /\ tasks[t].resp.atts = attachments
  /\ ls.atts = Stringify(attachments)

\* C19: when a fetchJobs and a fetchAttachments have run at the same time,
\* in whatever order their requests were served and their responses
\* handled, the state once both are over is the one of running them one
\* after the other: the jobs and the attachments in memory are the rows of
\* the remote tables and each cache slot holds its own collection; and a
\* fetch that brings the rows the previous one brought leaves the
\* collection and its slot as they were.
C19_ConcurrentFetches ==
  /\ [](Settled => /\ jobs = Rls(remoteJobs, user)
                   /\ attachments = Rls(remoteAtts, user)
                   /\ ls.jobs = Stringify(jobs)
                   /\ ls.atts = Stringify(attachments))
  /\ [][\A t \in TaskIds :
          /\ RepeatsJobs(t) => jobs' = jobs /\ ls'.jobs = ls.jobs
          /\ RepeatsAtts(t) => attachments' = attachments /\ ls'.atts = ls.atts]_vars

\* both responses are on their way back, the jobs one bringing a job that
\* is not in memory yet: either may be handled first
C19_Witness ==
  \E t, u \in TaskIds :
    /\ tasks[t].pc = "fa_resp"
    /\ tasks[u].pc = "fj_resp"
    /\ tasks[u].resp.jobs # jobs

\* no attachment delete is between its first request and its end
NoAttDeletePending == \A t \in TaskIds : tasks[t].kind # "attdel"

\* C20 as stated: once an attachment delete attempt is over, however it
\* ended, every row of the remote attachments table and every attachment
\* in memory has a file_path that is still in the bucket.
C20_NoDanglingMetadata ==
  NoAttDeletePending
    => /\ \A i \in 1..Len(remoteAtts) : remoteAtts[i].file_path \in blobs
       /\ \A i \in 1..Len(attachments) : attachments[i].file_path \in blobs

\* C21: an attachment delete sends its metadata delete only on receiving
\* the successful answer to the blob removal; on a failed answer to either
\* request it ends there, with the collection and the slots as they were;
\* and it changes the attachment collection or its slot only on receiving
\* the successful answer to the metadata delete, dropping the entry of its
\* id from both.
C21_BlobThenMetadata ==
  [][\A t \in TaskIds :
       (Steps(t) /\ (tasks[t].kind = "attdel" \/ tasks'[t].kind = "attdel"))
         => /\ tasks'[t].pc = "dm_sent"
                 => tasks[t].pc = "rb_resp" /\ tasks[t].resp.ok
            /\ (tasks[t].pc \in {"rb_resp", "dm_resp"} /\ ~tasks[t].resp.ok)
                 => /\ tasks'[t].pc = "done"
                    /\ UNCHANGED <<jobs, attachments, ls>>
            /\ <<attachments, ls>>' # <<attachments, ls>>
                 => /\ tasks[t].pc = "dm_resp" /\ tasks[t].resp.ok
                    /\ attachments' = WithoutId(attachments, tasks[t].id)
                    /\ ls' = [ls EXCEPT !.atts = Stringify(attachments')]]_vars

\* an attachment delete has succeeded in both steps: the blob, the row and
\* the entry in memory and in the slot are gone, the job is still there
C21_Witness ==
  /\ blobs = {}
  /\ remoteAtts = <<>>
  /\ remoteJobs = <<Job1>>
  /\ jobs = <<Job1>>
  /\ attachments = <<>>
  /\ ls.atts = Stringify(<<>>)
  /\ alertMsg = ""

\* the paths the rows of the attachments table refer to
RowPaths == {remoteAtts[i].file_path : i \in 1..Len(remoteAtts)}

\* C22: an upload sends its metadata insert only on receiving the
\* successful answer to the blob upload, and the blob is in the bucket
\* while the insert is awaited, so that every row the insert creates refers
\* to a blob uploaded before; on a failed blob upload the handler ends with
\* no insert sent; on a failed insert it ends with no further request and
\* the bucket as it was.
C22_TwoPhaseUpload ==
  [][\A t \in TaskIds :
       (Steps(t) /\ (tasks[t].kind = "upload" \/ tasks'[t].kind = "upload"))
         => /\ tasks'[t].pc = "m_sent"
                 => tasks[t].pc = "b_resp" /\ tasks[t].resp.ok
            /\ tasks[t].pc = "m_sent" => tasks[t].path \in blobs
            /\ remoteAtts' # remoteAtts
                 => /\ tasks[t].pc = "m_sent"
                    /\ remoteAtts'[1].file_path = tasks[t].path
                    /\ remoteAtts'[1].file_path \in blobs
            /\ (tasks[t].pc = "b_resp" /\ ~tasks[t].resp.ok)
                 => tasks'[t].pc = "done" /\ UNCHANGED remoteVars
            /\ (tasks[t].pc = "m_resp" /\ ~tasks[t].resp.ok)
                 => tasks'[t].pc = "done" /\ UNCHANGED remoteVars]_vars

\* an upload whose metadata insert failed is over: its blob is in the
\* bucket and no row refers to it
C22_Witness ==
  /\ alertMsg = "Failed to upload attachment"
  /\ \A t \in TaskIds : tasks[t].kind # "upload"
  /\ \E p \in blobs : p # Path1 /\ p \notin RowPaths

\* C23: the step of an upload that receives the successful answer to the
\* metadata insert puts the row of the answer in front of the attachment
\* collection, the entries already there following in their order, writes
\* that collection to the attachments slot, ends the handler (no
\* fetchAttachments is sent) and leaves the job collection, the jobs slot
\* and the last-fetch slot as they were; an upload is never waiting for a
\* fetch.
C23_UploadPrepends ==
  [][\A t \in TaskIds :
       /\ (Steps(t) /\ tasks[t].kind = "upload" /\ tasks[t].pc = "m_resp"
                    /\ tasks[t].resp.ok)
            => /\ Len(tasks[t].resp.atts) = 1
               /\ attachments' = <<tasks[t].resp.atts[1]>> \o attachments
               /\ ls' = [ls EXCEPT !.atts = Stringify(attachments')]
               /\ jobs' = jobs
               /\ tasks'[t].pc = "done"
       /\ tasks'[t].kind = "upload"
            => tasks'[t].pc \in {"b_sent", "b_resp", "m_sent", "m_resp"}]_vars

\* an upload has succeeded for job 1, which had an attachment already: the
\* new row is first, the old one second, in memory and in the slot
C23_Witness ==
  /\ Len(attachments) = 2
  /\ attachments[2] = Att1
  /\ attachments[1].id # Att1.id
  /\ attachments[1] = remoteAtts[1]
  /\ ls.atts = Stringify(attachments)
  /\ jobs = <<Job1>>

\* C24: the last-fetch slot changes only in a step that handles the
\* successful response of a fetchJobs or of a fetchAttachments; the steps
\* of a job delete, of an attachment upload and of an attachment delete,
\* which write the jobs and the attachments slots, leave it as it was.
C24_StampOnlyByFetch ==
  [][/\ ls'.last # ls.last
          => \E t \in TaskIds : /\ Steps(t)
                                /\ tasks[t].pc \in {"fj_resp", "fa_resp"}
                                /\ tasks[t].resp.ok
     /\ \A t \in TaskIds :
          (Steps(t) /\ tasks[t].kind \in {"delete", "upload", "attdel"})
            => ls'.last = ls.last]_vars

\* from a cache exactly as old as the time-to-live, with no fetch: job 1
\* has been deleted, the jobs and the attachments slots have been written,
\* the last-fetch slot still holds the old instant
C24_Witness ==
  /\ branch = "fresh"
  /\ jobs = <<>>
  /\ ls.jobs = Stringify(<<>>)
  /\ ls.atts = Stringify(<<>>)
  /\ ls.last = Stamp(StartMs - CACHE_TTL_MS)

\* the ids in a slot that parses
SlotIds(slot) == IF Parses(slot) THEN Ids(slot.v) ELSE {}

\* C25 as stated: a job that is no longer in the remote table and that
\* handleDelete has dropped from the job collection never comes back, in
\* the collection or in the jobs slot, whatever responses are still to be
\* handled.
C25_DeletedStaysGone ==
  [][\A id \in 1..srvSeq :
       (branch # "unstarted" /\ id \notin Ids(remoteJobs) /\ id \notin Ids(jobs))
         => id \notin Ids(jobs') /\ id \notin SlotIds(ls'.jobs)]_vars

\* C26 as stated, for a browser whose localStorage was empty when the page
\* was first opened, less than the time-to-live ago: when the startup
\* effect takes the branch with no remote call, the jobs slot has been
\* written by a successful fetchJobs, and the jobs shown are its rows.
C26_FreshStampFreshJobs ==
  branch = "fresh"
    => /\ now - LastFetch(ls.last) <= CACHE_TTL_MS
       /\ Parses(ls.jobs)
       /\ jobs = ls.jobs.v

\* C27: once the startup effect has run, a jobs slot that parses holds the
\* job collection in memory and an attachments slot that parses holds the
\* attachment collection in memory.
C27_SlotsMirrorMemory ==
  branch # "unstarted"
    => /\ Parses(ls.jobs) => ls.jobs.v = jobs
       /\ Parses(ls.atts) => ls.atts.v = attachments

\* from an empty localStorage: both fetches have filled the slots and a
\* job delete has then emptied the collections and the slots
C27_Witness ==
  /\ branch = "initial"
  /\ remoteJobs = <<>>
  /\ jobs = <<>>
  /\ attachments = <<>>
  /\ ls.jobs = Stringify(<<>>)
  /\ ls.atts = Stringify(<<>>)
  /\ ls.last # NoStamp

\* C28 as stated: a Previous step taken while the page on display is
\* beyond the first shows the page before it, and a Next step taken while
\* the page on display is before the last shows the page after it (the
\* step leaves the list and the page size, hence the number of pages, as
\* they were).
C28_PreviousNextByOne ==
  [][LET pages == totalPages
         shown == Clamp(currentPage, pages)
         shownNext == Clamp(currentPage', pages)
     IN /\ (currentPage' # currentPage /\ shown > 1 /\ PreviousPage)
             => shownNext = shown - 1
        /\ (currentPage' # currentPage /\ shown < pages /\ NextPage)
             => shownNext = shown + 1]_vars

\* C29: whenever the view is loading, before the startup effect or during
\* a fetchJobs of the effect or of a create or update, it is eventually
\* not loading, the remote calls being answered with rows or with an error.
C29_EventuallyLoaded == loading ~> ~loading

\* from an empty localStorage the jobs select has failed and both fetches
\* are over: nothing is shown and the view is not loading
C29_Witness ==
  /\ branch = "initial"
  /\ \A t \in TaskIds : tasks[t].pc \in {"idle", "done"}
  /\ ls.jobs = Absent
  /\ jobs = <<>>
  /\ ~loading

\* the submissions of the job form whose insert or update has been sent
\* and whose answer has not been handled
InFlight ==
  {t \in TaskIds : tasks[t].kind = "submit" /\ tasks[t].pc \in {"w_sent", "w_resp"}}

\* the row of the jobs table with the given id, less what the server assigns
Written(id) ==
  LET row == CHOOSE r \in Elems(remoteJobs) : r.id = id
  IN [row EXCEPT !.id = NoId, !.created_at = NoId]

\* C30 as stated: no two requests of the job form are in flight together,
\* and so there are never two inserts, both served before the answer to
\* either was handled, that have put the same form in the table twice.
C30_OneSubmitInFlight ==
  \A t, u \in InFlight :
    (/\ t # u
     /\ tasks[t].pc = "w_resp" /\ tasks[t].resp.ok /\ tasks[t].id = NoId
     /\ tasks[u].pc = "w_resp" /\ tasks[u].resp.ok /\ tasks[u].id = NoId
     /\ tasks[t].wrote \in Ids(remoteJobs)
     /\ tasks[u].wrote \in Ids(remoteJobs))
      => Written(tasks[t].wrote) # Written(tasks[u].wrote)

====
